---- MODULE Spec2Model ----
(***************************************************************************)
(* Model of ItemEjectorSystem (src/js/game/systems/item_ejector.js): the   *)
(* ejector connectivity cache, its invalidation rectangle and the per-tick *)
(* transfer scheduler with its handover dispatcher.                        *)
(*                                                                         *)
(* Conventions: a tile is <<x, y>>; a rectangle is [null, x, y, w, h];     *)
(* slot indices are 1-based (source index + 1); progress is counted in     *)
(* units of 1/One, so progress = One is the source's progress 1.           *)
(***************************************************************************)
EXTENDS Integers, Sequences, FiniteSets, TLC

\* ------------------------------------------------------------------ bounds
One == 2          \* progress resolution: the source's 1.0
MaxItems == 2     \* items ever placed into ejector slots
MaxRoom == 1      \* free room a receiver capability can have in one tick
MaxSlotIndex == 2 \* acceptor slot indices of the receivers of SpecDispatch

\* --------------------------------------------------------------- constants
Margin == 2       \* expandedInAllDirections(2)

NoEntity == 0
NoItem == 0

Directions == <<"top", "right", "bottom", "left">>

DirIndex(d) == CHOOSE i \in 1..4 : Directions[i] = d

\* enumDirectionToVector
enumDirectionToVector(d) ==
    CASE d = "top" -> <<0, -1>>
      [] d = "right" -> <<1, 0>>
      [] d = "bottom" -> <<0, 1>>
      [] d = "left" -> <<-1, 0>>

\* enumInvertedDirections
enumInvertedDirections(d) == Directions[((DirIndex(d) + 1) % 4) + 1]

\* Vector.add
VecAdd(a, b) == <<a[1] + b[1], a[2] + b[2]>>

VecSub(a, b) == <<a[1] - b[1], a[2] - b[2]>>

\* Vector.rotateFastMultipleOf90
rotateFastMultipleOf90(v, rot) ==
    CASE rot = 0 -> v
      [] rot = 90 -> <<-v[2], v[1]>>
      [] rot = 180 -> <<-v[1], -v[2]>>
      [] rot = 270 -> <<v[2], -v[1]>>

\* Vector.transformDirectionFromMultipleOf90: turn d clockwise by rot
transformDirectionFromMultipleOf90(d, rot) ==
    Directions[((DirIndex(d) - 1 + (rot \div 90)) % 4) + 1]

\* -------------------------------------------------------------- rectangles
NoRect == [null |-> TRUE, x |-> 0, y |-> 0, w |-> 0, h |-> 0]

Rect(x, y, w, h) == [null |-> FALSE, x |-> x, y |-> y, w |-> w, h |-> h]

RectRight(r) == r.x + r.w

RectBottom(r) == r.y + r.h

Min(a, b) == IF a < b THEN a ELSE b

Max(a, b) == IF a > b THEN a ELSE b

\* Rectangle.expandedInAllDirections
expandedInAllDirections(r, amount) ==
    Rect(r.x - amount, r.y - amount, r.w + 2 * amount, r.h + 2 * amount)

\* Rectangle.getUnion: the bounding rectangle of both
getUnion(a, b) ==
    LET left == Min(a.x, b.x)
        top == Min(a.y, b.y)
        right == Max(RectRight(a), RectRight(b))
        bottom == Max(RectBottom(a), RectBottom(b))
    IN  Rect(left, top, right - left, bottom - top)

RectTiles(r) ==
    {<<x, y>> : x \in r.x..(RectRight(r) - 1), y \in r.y..(RectBottom(r) - 1)}

\* ------------------------------------------------------- the entity pool
\* The buildings the world can hold, with their components.
\*   1  A  two-tile ejector at (-1,0)-(0,0); its slot sits on (0,0) and
\*         ejects right, into (1,0)
\*   2  B  receiver at (1,0) with a belt and a processor; one acceptor slot
\*         taking items from the left and from the bottom
\*   3  C  ejector at (1,1) rotated by 90; local "left" is world top, so it
\*         ejects into (1,0) as well
\*   4  X  a building at (5,0) with neither ejector nor acceptor, more than
\*         two tiles away from all others
\*   5  N  an entity without StaticMapEntity (it is not on the map)
\*   6  W  ejector at (2,0) ejecting left, into (1,0): B takes nothing from
\*         its right, so no acceptor slot matches
\*   7  V  ejector at (0,1) ejecting top, into (0,0): a tile of A, which has
\*         no acceptor
\*   8  D  two-tile ejector at (0,11)-(1,11) with a slot on each tile, both
\*         ejecting top, into (0,10) and (1,10)
\*   9  E  two-tile receiver at (0,10)-(1,10) with a belt and a processor
\*         and an acceptor slot on each tile, taking items from the bottom
\* A is registered before C or after it, depending on the order of placing.
\* A destroyed entity that can be a cached target (B) stays destroyed; for
\* the others, which nothing refers to, placing the uid again stands for
\* placing a new building of the same kind with a fresh component.
Uids == 1..9

\* the entities that the environment of Spec creates and destroys
WorldUids == 1..5

EjSlot(pos, dir) == [pos |-> pos, direction |-> dir]

AcSlot(pos, dirs) == [pos |-> pos, directions |-> dirs]

Entity(static, origin, rot, size, ejs, acs, acceptor, caps) ==
    [static |-> static, origin |-> origin, rotation |-> rot, size |-> size,
     ejectorSlots |-> ejs, acceptorSlots |-> acs, acceptor |-> acceptor,
     caps |-> caps]

Pool ==
    <<Entity(TRUE, <<-1, 0>>, 0, <<2, 1>>, <<EjSlot(<<1, 0>>, "right")>>, <<>>,
             FALSE, {}),
      Entity(TRUE, <<1, 0>>, 0, <<1, 1>>, <<>>,
             <<AcSlot(<<0, 0>>, <<"left", "bottom">>)>>, TRUE,
             {"Belt", "ItemProcessor"}),
      Entity(TRUE, <<1, 1>>, 90, <<1, 1>>, <<EjSlot(<<0, 0>>, "left")>>, <<>>,
             FALSE, {}),
      Entity(TRUE, <<5, 0>>, 0, <<1, 1>>, <<>>, <<>>, FALSE, {}),
      Entity(FALSE, <<0, 0>>, 0, <<1, 1>>, <<>>, <<>>, FALSE, {}),
      Entity(TRUE, <<2, 0>>, 0, <<1, 1>>, <<EjSlot(<<0, 0>>, "left")>>, <<>>,
             FALSE, {}),
      Entity(TRUE, <<0, 1>>, 0, <<1, 1>>, <<EjSlot(<<0, 0>>, "top")>>, <<>>,
             FALSE, {}),
      Entity(TRUE, <<0, 11>>, 0, <<2, 1>>,
             <<EjSlot(<<0, 0>>, "top"), EjSlot(<<1, 0>>, "top")>>, <<>>,
             FALSE, {}),
      Entity(TRUE, <<0, 10>>, 0, <<2, 1>>, <<>>,
             <<AcSlot(<<0, 0>>, <<"bottom">>), AcSlot(<<1, 0>>, <<"bottom">>)>>,
             TRUE, {"Belt", "ItemProcessor"})>>

\* entity.components.ItemEjector
HasEjector(e) == Len(Pool[e].ejectorSlots) > 0

EjectorUids == {e \in Uids : HasEjector(e)}

\* ------------------------------------------------- StaticMapEntity (geometry)
localTileToWorld(e, localTile) ==
    VecAdd(rotateFastMultipleOf90(localTile, Pool[e].rotation), Pool[e].origin)

worldToLocalTile(e, worldTile) ==
    rotateFastMultipleOf90(VecSub(worldTile, Pool[e].origin),
                           (360 - Pool[e].rotation) % 360)

localDirectionToWorld(e, d) ==
    transformDirectionFromMultipleOf90(d, Pool[e].rotation)

worldDirectionToLocal(e, d) ==
    transformDirectionFromMultipleOf90(d, (360 - Pool[e].rotation) % 360)

getTileSpaceBounds(e) ==
    LET o == Pool[e].origin
        s == Pool[e].size
        rot == Pool[e].rotation
    IN  CASE rot = 0 -> Rect(o[1], o[2], s[1], s[2])
          [] rot = 90 -> Rect(o[1] - s[2] + 1, o[2], s[2], s[1])
          [] rot = 180 -> Rect(o[1] - s[1] + 1, o[2] - s[2] + 1, s[1], s[2])
          [] rot = 270 -> Rect(o[1], o[2] - s[1] + 1, s[2], s[1])

\* the tiles an entity occupies on the map
EntityTilesOf ==
    [e \in Uids |-> IF Pool[e].static THEN RectTiles(getTileSpaceBounds(e)) ELSE {}]

\* ------------------------------------------------------------------- state
VARIABLES
    status,            \* uid -> "new" | "placed" | "destroyed"
    allEntities,       \* GameSystemWithFilter.allEntities: ejector uids in registration order
    ejector,           \* uid -> the entity's ItemEjector component
    areaToRecompute,   \* this.areaToRecompute (NoRect is null)
    gameInitialized,   \* this.root.gameInitialized
    nextItem,          \* identity of the next item handed to an ejector
    delivered,         \* history: item -> number of onItemAccepted calls for it
    unmerged,          \* history: an add/remove was ignored since the last full recompute
    pending,           \* history: the entities whose add/remove was merged since the last recompute
    last,              \* history: what the last operation did
    dispatch           \* one call of tryPassOverItem on an arbitrary receiver

vars == <<status, allEntities, ejector, areaToRecompute, gameInitialized,
          nextItem, delivered, unmerged, pending, last, dispatch>>

Items == 1..MaxItems

\* cachedConnectedSlots: null, or the list of connected slot indices
NullList == [null |-> TRUE, list |-> <<>>]

ListOf(s) == [null |-> FALSE, list |-> s]

\* cachedDestSlot: null, or the match returned by findMatchingSlot
NoSlot == [index |-> 0, acceptedDirection |-> "none"]

\* ItemEjectorComponent: slots start empty and uncached
NewSlot ==
    [item |-> NoItem, progress |-> 0, cachedTargetEntity |-> NoEntity,
     cachedDestSlot |-> NoSlot]

NewEjector(e) ==
    [cachedConnectedSlots |-> NullList,
     slots |-> [i \in 1..Len(Pool[e].ejectorSlots) |-> NewSlot]]

\* what the last recomputeCache or update() did
\*   op: "postload" | "tick", recompute: "none" | "area" | "full",
\*   recomputed: the entities recomputeSingleEntityCache ran on, in order,
\*   calls: the calls the tick made, aborted: an assertion ended the tick,
\*   growth: the tick's progressGrowth
Did(op, recompute, recomputed, calls, aborted, growth) ==
    [op |-> op, recompute |-> recompute, recomputed |-> recomputed,
     calls |-> calls, aborted |-> aborted, growth |-> growth]

\* any other operation leaves nothing on record
Other == Did("other", "none", <<>>, <<>>, FALSE, 0)

\* ------------------------------------------------------------------ the map
\* the tiles some building of the pool can occupy
BuildableTiles == UNION {EntityTilesOf[e] : e \in Uids}

\* root.map.getTileContent / getTileContentXY
getTileContent(st, tile) ==
    IF tile \notin BuildableTiles THEN NoEntity
    ELSE IF \E e \in Uids : st[e] = "placed" /\ tile \in EntityTilesOf[e]
    THEN CHOOSE e \in Uids : st[e] = "placed" /\ tile \in EntityTilesOf[e]
    ELSE NoEntity

\* ItemAcceptorComponent.findMatchingSlot
RECURSIVE findMatchingSlotFrom(_, _, _, _)
findMatchingSlotFrom(t, targetLocalTile, desiredDirection, slotIndex) ==
    IF slotIndex > Len(Pool[t].acceptorSlots) THEN NoSlot
    ELSE LET slot == Pool[t].acceptorSlots[slotIndex]
         IN  IF /\ slot.pos = targetLocalTile
                /\ \E i \in 1..Len(slot.directions) :
                       slot.directions[i] = desiredDirection
             THEN [index |-> slotIndex, acceptedDirection |-> desiredDirection]
             ELSE findMatchingSlotFrom(t, targetLocalTile, desiredDirection,
                                       slotIndex + 1)

findMatchingSlot(t, targetLocalTile, fromLocalDirection) ==
    findMatchingSlotFrom(t, targetLocalTile,
                         enumInvertedDirections(fromLocalDirection), 1)

\* ------------------------------------------------- Connectivity cache builder
\* Range of a sequence
Range(seq) == {seq[i] : i \in 1..Len(seq)}

\* the world direction an ejector slot ejects into
ejectSlotWsDirection(e, ejectorSlotIndex) ==
    localDirectionToWorld(e, Pool[e].ejectorSlots[ejectorSlotIndex].direction)

\* the tile an ejector slot ejects into
ejectSlotTargetWsTile(e, ejectorSlotIndex) ==
    VecAdd(localTileToWorld(e, Pool[e].ejectorSlots[ejectorSlotIndex].pos),
           enumDirectionToVector(ejectSlotWsDirection(e, ejectorSlotIndex)))

NoConnection == <<NoEntity, NoSlot>>

\* the connection cached without "if (!matchingSlot) continue"
ConnectionWithoutMatch(targetEntity, matchingSlot) ==
    <<targetEntity, matchingSlot>>

\* "if (!matchingSlot) continue", else the connection found
Connection(targetEntity, matchingSlot) ==
    IF matchingSlot = NoSlot THEN NoConnection
    ELSE <<targetEntity, matchingSlot>>

\* "if (!targetEntity) continue; if (!targetAcceptorComp) continue", else
\* ask the acceptor for the matching slot
FindAcceptor(targetEntity, targetWsTile, wsDirection) ==
    IF targetEntity = NoEntity THEN NoConnection
    ELSE IF ~Pool[targetEntity].acceptor THEN NoConnection
    ELSE Connection(targetEntity,
             findMatchingSlot(targetEntity,
                 worldToLocalTile(targetEntity, targetWsTile),
                 worldDirectionToLocal(targetEntity, wsDirection)))

\* one iteration of the slot loop: <<target entity, matching slot>>
ResolveSlot(st, e, ejectorSlotIndex) ==
    FindAcceptor(getTileContent(st, ejectSlotTargetWsTile(e, ejectorSlotIndex)),
                 ejectSlotTargetWsTile(e, ejectorSlotIndex),
                 ejectSlotWsDirection(e, ejectorSlotIndex))

\* cachedConnectedSlots stays null unless a connection was found
ConnectedList(connected) ==
    IF connected = <<>> THEN NullList ELSE ListOf(connected)

\* the recompute without "Clear the old cache": a slot that finds no
\* connection keeps what it had cached, and so does the list
WithConnectionsNotCleared(comp, res) ==
    [cachedConnectedSlots |->
         IF SelectSeq([i \in 1..Len(comp.slots) |-> i],
                      LAMBDA i : res[i][1] # NoEntity) = <<>>
         THEN comp.cachedConnectedSlots
         ELSE ListOf(SelectSeq([i \in 1..Len(comp.slots) |-> i],
                               LAMBDA i : res[i][1] # NoEntity)),
     slots |-> [i \in 1..Len(comp.slots) |->
         IF res[i][1] = NoEntity THEN comp.slots[i]
         ELSE [comp.slots[i] EXCEPT !.cachedTargetEntity = res[i][1],
                                    !.cachedDestSlot = res[i][2]]]]

\* the recompute without "ejectorComp.cachedConnectedSlots = null": the
\* connections found are pushed onto the list the component already had
WithConnectionsAppending(comp, res) ==
    [cachedConnectedSlots |->
         ConnectedList((IF comp.cachedConnectedSlots.null THEN <<>>
                        ELSE comp.cachedConnectedSlots.list)
                       \o SelectSeq([i \in 1..Len(comp.slots) |-> i],
                                    LAMBDA i : res[i][1] # NoEntity)),
     slots |-> [i \in 1..Len(comp.slots) |->
         [comp.slots[i] EXCEPT !.cachedTargetEntity = res[i][1],
                               !.cachedDestSlot = res[i][2]]]]

\* the recompute without "else cachedConnectedSlots = [ejectorSlot]": the
\* cleared list is never started, the slots still cache their connections
WithConnectionsNeverListed(comp, res) ==
    [cachedConnectedSlots |-> NullList,
     slots |-> [i \in 1..Len(comp.slots) |->
         [comp.slots[i] EXCEPT !.cachedTargetEntity = res[i][1],
                               !.cachedDestSlot = res[i][2]]]]

\* the component with the old cache cleared and the connections found set
WithConnections(comp, res) ==
    [cachedConnectedSlots |->
         ConnectedList(SelectSeq([i \in 1..Len(comp.slots) |-> i],
                                 LAMBDA i : res[i][1] # NoEntity)),
     slots |-> [i \in 1..Len(comp.slots) |->
         [comp.slots[i] EXCEPT !.cachedTargetEntity = res[i][1],
                               !.cachedDestSlot = res[i][2]]]]

\* recomputeSingleEntityCache: the component of e after the recompute
recomputeSingleEntityCache(st, comp, e) ==
    WithConnections(comp, [i \in 1..Len(comp.slots) |-> ResolveSlot(st, e, i)])

\* the components after recomputeSingleEntityCache(e)
Recomputed(st, ej, e) ==
    [ej EXCEPT ![e] = recomputeSingleEntityCache(st, ej[e], e)]

\* The two loops over an area visit its tiles with x outer and y inner, that
\* is in the order TileBefore; only buildable tiles can have content, so the
\* model walks those, in that order, and skips the ones outside the area.
TileBefore(a, b) == a[1] < b[1] \/ (a[1] = b[1] /\ a[2] <= b[2])

RECURSIVE TilesInOrder(_)
TilesInOrder(tiles) ==
    IF tiles = {} THEN <<>>
    ELSE LET first == CHOOSE t \in tiles : \A u \in tiles : TileBefore(t, u)
         IN  <<first>> \o TilesInOrder(tiles \ {first})

BuildableTileSeq == TilesInOrder(BuildableTiles)

InArea(area, tile) ==
    /\ area.x <= tile[1] /\ tile[1] < RectRight(area)
    /\ area.y <= tile[2] /\ tile[2] < RectBottom(area)

\* getTileContentXY(x, y) for the k-th tile, if the loops reach it
TileEntity(st, area, tile) ==
    IF InArea(area, tile) THEN getTileContent(st, tile) ELSE NoEntity

\* recomputeAreaCache: [ej |-> components, order |-> entities recomputed]
RECURSIVE recomputeAreaFrom(_, _, _, _, _)
\* the body of the loops for one tile with content entity
AreaStep(st, area, k, ej, order, entity) ==
    IF /\ entity # NoEntity
       /\ entity \notin Range(order)
       /\ HasEjector(entity)
    THEN recomputeAreaFrom(st, area, k + 1, Recomputed(st, ej, entity),
                           Append(order, entity))
    ELSE recomputeAreaFrom(st, area, k + 1, ej, order)

recomputeAreaFrom(st, area, k, ej, order) ==
    IF k > Len(BuildableTileSeq) THEN [ej |-> ej, order |-> order, kind |-> "area"]
    ELSE AreaStep(st, area, k, ej, order,
                  TileEntity(st, area, BuildableTileSeq[k]))

recomputeAreaCache(st, ej, area) == recomputeAreaFrom(st, area, 1, ej, <<>>)

\* the full branch of recomputeCache: every entity of allEntities
RECURSIVE recomputeAllFrom(_, _, _, _)
recomputeAllFrom(st, all, i, ej) ==
    IF i > Len(all) THEN [ej |-> ej, order |-> all, kind |-> "full"]
    ELSE recomputeAllFrom(st, all, i + 1, Recomputed(st, ej, all[i]))

\* recomputeCache: [ej, order, kind]
recomputeCache(st, all, ej, area) ==
    IF ~area.null THEN recomputeAreaCache(st, ej, area)
    ELSE recomputeAllFrom(st, all, 1, ej)

\* --------------------------------------------------------- Invalidation tracker
\* checkForCacheInvalidation without the union: the last bounds replace the area
MergeAreaReplacing(area, expandedBounds) == expandedBounds

\* checkForCacheInvalidation: the new areaToRecompute
MergeArea(area, expandedBounds) ==
    IF ~area.null THEN getUnion(area, expandedBounds) ELSE expandedBounds

\* the bounds of the entity without the margin around them
ExpandedBoundsNoMargin(e) == getTileSpaceBounds(e)

ExpandedBounds(e) == expandedInAllDirections(getTileSpaceBounds(e), Margin)

Notifies(init, e) == init /\ Pool[e].static

\* the handler without "if (!this.root.gameInitialized) return"
checkForCacheInvalidationUninitialized(init, area, e) ==
    IF ~Pool[e].static THEN area
    ELSE MergeArea(area, ExpandedBounds(e))

checkForCacheInvalidation(init, area, e) ==
    IF ~init THEN area
    ELSE IF ~Pool[e].static THEN area
    ELSE MergeArea(area, ExpandedBounds(e))

\* ------------------------------------------------------------ the receivers
\* What a receiving entity answers is decided outside this system.  A
\* receiver is [caps, path, room]: the capabilities it carries, whether its
\* belt has an assigned path, and how many more items each capability takes.
Caps == {"Belt", "Storage", "ItemProcessor", "UndergroundBelt", "EnergyGenerator"}

\* the processor takes items per slot index, the others per entity
RoomKey(cap, slotIndex) ==
    IF cap = "ItemProcessor" THEN <<cap, slotIndex>> ELSE <<cap, 0>>

RoomKeys(caps, nSlots) ==
    {<<c, 0>> : c \in caps \ {"ItemProcessor"}}
        \cup {<<c, i>> : c \in caps \cap {"ItemProcessor"}, i \in 1..nSlots}

\* the states a receiver can be in; how much room a belt without a path
\* would have is never asked, so one such state stands for all of them
Receivers(caps, nSlots) ==
    {[caps |-> caps, path |-> TRUE, room |-> r] :
        r \in [RoomKeys(caps, nSlots) -> 0..MaxRoom]}
    \cup {[caps |-> caps, path |-> FALSE,
           room |-> [k \in RoomKeys(caps, nSlots) |-> 0]] :
              c \in caps \cap {"Belt"}}

Present(rcv, cap) == cap \in rcv.caps

\* the room a present capability has left for an item arriving at slotIndex
RoomOf(rcv, cap, slotIndex) ==
    IF Present(rcv, cap) THEN rcv.room[RoomKey(cap, slotIndex)] ELSE 0

\* path.tryAcceptItem, storage.canAcceptItem, processor.tryTakeItem, ...
CapAccepts(rcv, cap, slotIndex) == RoomOf(rcv, cap, slotIndex) > 0

\* the capabilities asked so far, after cap declined (if present)
Tried(tried, rcv, cap) == IF Present(rcv, cap) THEN Append(tried, cap) ELSE tried

\* cap takes the item: "return true"
Taken(tried, rcv, cap, slotIndex) ==
    [ret |-> "true", tried |-> Append(tried, cap),
     rcv |-> [rcv EXCEPT !.room[RoomKey(cap, slotIndex)] = @ - 1]]

\* ---------------------------------------------------------- Handover dispatcher
\* tryPassOverItem: [ret |-> "true" | "false" | "abort", tried, rcv], its
\* five blocks from the last to the first
TryEnergyGenerator(rcv, slotIndex, tried) ==
    IF CapAccepts(rcv, "EnergyGenerator", slotIndex)
    THEN Taken(tried, rcv, "EnergyGenerator", slotIndex)
    ELSE [ret |-> "false", tried |-> Tried(tried, rcv, "EnergyGenerator"),
          rcv |-> rcv]

TryUndergroundBelt(rcv, slotIndex, tried) ==
    IF CapAccepts(rcv, "UndergroundBelt", slotIndex)
    THEN Taken(tried, rcv, "UndergroundBelt", slotIndex)
    ELSE TryEnergyGenerator(rcv, slotIndex, Tried(tried, rcv, "UndergroundBelt"))

TryItemProcessor(rcv, slotIndex, tried) ==
    IF CapAccepts(rcv, "ItemProcessor", slotIndex)
    THEN Taken(tried, rcv, "ItemProcessor", slotIndex)
    ELSE TryUndergroundBelt(rcv, slotIndex, Tried(tried, rcv, "ItemProcessor"))

TryStorage(rcv, slotIndex, tried) ==
    IF CapAccepts(rcv, "Storage", slotIndex)
    THEN Taken(tried, rcv, "Storage", slotIndex)
    ELSE TryItemProcessor(rcv, slotIndex, Tried(tried, rcv, "Storage"))

TryBelt(rcv, slotIndex) ==
    IF CapAccepts(rcv, "Belt", slotIndex)
    THEN Taken(<<>>, rcv, "Belt", slotIndex)
    ELSE TryStorage(rcv, slotIndex, Tried(<<>>, rcv, "Belt"))

\* tryPassOverItem asking the storage before the belt
tryPassOverItemStorageFirst(rcv, slotIndex) ==
    IF Present(rcv, "Belt") /\ ~rcv.path
    THEN [ret |-> "abort", tried |-> <<>>, rcv |-> rcv]
    ELSE IF CapAccepts(rcv, "Storage", slotIndex)
    THEN Taken(<<>>, rcv, "Storage", slotIndex)
    ELSE TryBelt(rcv, slotIndex)

\* tryPassOverItem without the assertion: a belt without a path declines
tryPassOverItemNoAssert(rcv, slotIndex) ==
    IF Present(rcv, "Belt") /\ ~rcv.path
    THEN TryStorage(rcv, slotIndex, <<"Belt">>)
    ELSE TryBelt(rcv, slotIndex)

\* assert(path, "belt has no path") fails before anything is asked
tryPassOverItem(rcv, slotIndex) ==
    IF Present(rcv, "Belt") /\ ~rcv.path
    THEN [ret |-> "abort", tried |-> <<>>, rcv |-> rcv]
    ELSE TryBelt(rcv, slotIndex)

\* ----------------------------------------------------------- Transfer scheduler
\* the room a receiver has left, over all its capabilities
FreeRoom(rcv, slotIndex) ==
    RoomOf(rcv, "Belt", slotIndex) + RoomOf(rcv, "Storage", slotIndex)
        + RoomOf(rcv, "ItemProcessor", slotIndex)
        + RoomOf(rcv, "UndergroundBelt", slotIndex)
        + RoomOf(rcv, "EnergyGenerator", slotIndex)

\* one call made by update(): fn(index, dir, item) on target, for the slot
\* (src, slot); for tryPassOverItem also the capabilities it tried and the
\* receiver it met (path assigned, free room); was is the progress of the
\* slot before the tick advanced it
Call(fn, src, slot, sourceSlot, ret, tried, rcv) ==
    [fn |-> fn, src |-> src, slot |-> slot,
     target |-> sourceSlot.cachedTargetEntity,
     index |-> sourceSlot.cachedDestSlot.index,
     dir |-> sourceSlot.cachedDestSlot.acceptedDirection,
     item |-> sourceSlot.item, was |-> sourceSlot.progress,
     ret |-> ret, tried |-> tried, path |-> rcv.path,
     free |-> FreeRoom(rcv, sourceSlot.cachedDestSlot.index)]

\* no receiver is involved in the call
NoReceiver == [caps |-> {}, path |-> TRUE, room |-> <<>>]

Logged(t, call) == [t EXCEPT !.calls = Append(@, call)]

\* Math_min(1, progress + progressGrowth)
Advance(progress, progressGrowth) == Min(One, progress + progressGrowth)

\* The body of the inner loop of update() for the slot s of e, in the steps
\* of the source from the last to the first; t is
\* [ej, rcvs, calls, aborted, delivered] and sourceSlot the slot as it was
\* when the body started.

\* the handover that also sets the progress of the cleared slot back to 0
AcceptedResettingProgress(t, e, s, sourceSlot) ==
    [Logged(t, Call("onItemAccepted", e, s, sourceSlot, "void", <<>>, NoReceiver))
        EXCEPT !.delivered[sourceSlot.item] = @ + 1,
               !.ej[e].slots[s].item = NoItem,
               !.ej[e].slots[s].progress = 0]

\* the handover without "sourceSlot.item = null"
AcceptedNotCleared(t, e, s, sourceSlot) ==
    [Logged(t, Call("onItemAccepted", e, s, sourceSlot, "void", <<>>, NoReceiver))
        EXCEPT !.delivered[sourceSlot.item] = @ + 1]

\* "Handover successful, clear slot"
Accepted(t, e, s, sourceSlot) ==
    [Logged(t, Call("onItemAccepted", e, s, sourceSlot, "void", <<>>, NoReceiver))
        EXCEPT !.delivered[sourceSlot.item] = @ + 1,
               !.ej[e].slots[s].item = NoItem]

\* a failed handover that drops the item from the source slot
OutcomeDroppingOnFailure(t, e, s, sourceSlot, ret) ==
    IF ret = "abort" THEN [t EXCEPT !.aborted = TRUE]
    ELSE IF ret = "true" THEN Accepted(t, e, s, sourceSlot)
    ELSE [t EXCEPT !.ej[e].slots[s].item = NoItem]

\* what the result of tryPassOverItem leads to
Outcome(t, e, s, sourceSlot, ret) ==
    IF ret = "abort" THEN [t EXCEPT !.aborted = TRUE]
    ELSE IF ret = "true" THEN Accepted(t, e, s, sourceSlot)
    ELSE t

\* "Try to hand over the item"
HandOver(t, e, s, sourceSlot, pass) ==
    Outcome([Logged(t, Call("tryPassOverItem", e, s, sourceSlot, pass.ret,
                            pass.tried,
                            t.rcvs[sourceSlot.cachedTargetEntity]))
                EXCEPT !.rcvs[sourceSlot.cachedTargetEntity] = pass.rcv],
            e, s, sourceSlot, pass.ret)

\* the check without its "continue": the handover is tried after a decline
AskAcceptorNoContinue(t, e, s, sourceSlot, canAccept) ==
    HandOver(Logged(t, Call("canAcceptItem", e, s, sourceSlot,
                            IF canAccept THEN "true" ELSE "false",
                            <<>>, NoReceiver)),
             e, s, sourceSlot,
             tryPassOverItem(t.rcvs[sourceSlot.cachedTargetEntity],
                             sourceSlot.cachedDestSlot.index))

\* "Check if the target acceptor can actually accept this item"
AskAcceptor(t, e, s, sourceSlot, canAccept) ==
    IF ~canAccept
    THEN Logged(t, Call("canAcceptItem", e, s, sourceSlot, "false", <<>>,
                        NoReceiver))
    ELSE HandOver(Logged(t, Call("canAcceptItem", e, s, sourceSlot, "true",
                                 <<>>, NoReceiver)),
                  e, s, sourceSlot,
                  tryPassOverItem(t.rcvs[sourceSlot.cachedTargetEntity],
                                  sourceSlot.cachedDestSlot.index))

\* the check made on the progress the slot had before it was advanced: the
\* acceptor is asked one tick after the progress reached 1
AfterAdvanceLate(t, e, s, sourceSlot, accepting) ==
    IF sourceSlot.progress < One THEN t
    ELSE AskAcceptor(t, e, s, sourceSlot,
             <<sourceSlot.cachedTargetEntity, sourceSlot.cachedDestSlot.index,
               sourceSlot.item>> \in accepting)

\* "Check if we are still in the process of ejecting, can't proceed then"
AfterAdvance(t, e, s, sourceSlot, accepting) ==
    IF t.ej[e].slots[s].progress < One THEN t
    ELSE AskAcceptor(t, e, s, sourceSlot,
             <<sourceSlot.cachedTargetEntity, sourceSlot.cachedDestSlot.index,
               sourceSlot.item>> \in accepting)

\* "No item available to be ejected", else "Advance items on the slot"
UpdateItem(t, e, s, sourceSlot, progressGrowth, accepting) ==
    IF sourceSlot.item = NoItem THEN t
    ELSE AfterAdvance([t EXCEPT !.ej[e].slots[s].progress =
                                    Advance(@, progressGrowth)],
                      e, s, sourceSlot, accepting)

UpdateSlot(t, e, s, progressGrowth, accepting) ==
    UpdateItem(t, e, s, t.ej[e].slots[s], progressGrowth, accepting)

\* the loops with "break" where the source has "continue" after a declined
\* or failed handover: the slots after it are not visited
RECURSIVE UpdateFromStopAtFailure(_, _, _, _, _)
UpdateFromStopAtFailure(t, work, k, progressGrowth, accepting) ==
    IF \/ k > Len(work)
       \/ t.aborted
       \/ \E n \in 1..Len(t.calls) : t.calls[n].ret = "false"
    THEN t
    ELSE UpdateFromStopAtFailure(
             UpdateSlot(t, work[k][1], work[k][2], progressGrowth, accepting),
             work, k + 1, progressGrowth, accepting)

\* the two loops of update(); an assertion failure ends the tick
RECURSIVE UpdateFrom(_, _, _, _, _)
UpdateFrom(t, work, k, progressGrowth, accepting) ==
    IF k > Len(work) \/ t.aborted THEN t
    ELSE UpdateFrom(UpdateSlot(t, work[k][1], work[k][2], progressGrowth, accepting),
                    work, k + 1, progressGrowth, accepting)

\* the loops of update() going over allEntities from the last to the first
RECURSIVE WorkListBackwards(_, _, _)
WorkListBackwards(all, ej, i) ==
    IF i > Len(all) THEN <<>>
    ELSE LET c == ej[all[i]].cachedConnectedSlots
         IN  WorkListBackwards(all, ej, i + 1)
                 \o (IF c.null THEN <<>>
                     ELSE [j \in 1..Len(c.list) |-> <<all[i], c.list[j]>>])

\* the (entity, slot) pairs the two loops of update() visit, in order
RECURSIVE WorkList(_, _, _)
WorkList(all, ej, i) ==
    IF i > Len(all) THEN <<>>
    ELSE LET c == ej[all[i]].cachedConnectedSlots
         IN  (IF c.null THEN <<>>
              ELSE [j \in 1..Len(c.list) |-> <<all[i], c.list[j]>>])
                 \o WorkList(all, ej, i + 1)

\* ---------------------------------------------------------------- operations
AcceptorUids == {e \in Uids : Pool[e].acceptor}

Remove(seq, e) == SelectSeq(seq, LAMBDA x : x # e)

Idle == [phase |-> "idle"]

Init ==
    /\ status = [e \in Uids |-> "new"]
    /\ allEntities = <<>>
    /\ ejector = [e \in EjectorUids |-> NewEjector(e)]
    /\ areaToRecompute = NoRect
    /\ gameInitialized = FALSE
    /\ nextItem = 1
    /\ delivered = [i \in Items |-> 0]
    /\ unmerged = FALSE
    /\ pending = {}
    /\ last = Other
    /\ dispatch = Idle

\* the signal handler shared by entityAdded and entityDestroyed
Notify(e) ==
    /\ areaToRecompute' = checkForCacheInvalidation(gameInitialized, areaToRecompute, e)
    /\ pending' = IF Notifies(gameInitialized, e)
                  THEN pending \cup {e} ELSE pending
    /\ unmerged' = (unmerged \/ (Pool[e].static /\ ~gameInitialized))
    /\ last' = Other

\* an entity is created: the map holds it if it has a place, the system
\* registers it if it has an ejector, and entityAdded is dispatched
AddEntity(e) ==
    /\ Pool[e].static => status[e] = "new"
    /\ \A tile \in EntityTilesOf[e] : getTileContent(status, tile) = NoEntity
    /\ status' = IF Pool[e].static THEN [status EXCEPT ![e] = "placed"] ELSE status
    /\ allEntities' = IF HasEjector(e) THEN Append(allEntities, e) ELSE allEntities
    /\ Notify(e)
    /\ UNCHANGED <<ejector, gameInitialized, nextItem, delivered, dispatch>>

\* an entity is destroyed: it leaves the map and the system's list, and
\* entityDestroyed is dispatched
RemoveEntity(e) ==
    /\ Pool[e].static => status[e] = "placed"
    /\ status' = IF ~Pool[e].static THEN status
                 ELSE [status EXCEPT ![e] =
                          IF Pool[e].acceptor THEN "destroyed" ELSE "new"]
    /\ allEntities' = Remove(allEntities, e)
    /\ ejector' = IF HasEjector(e) THEN [ejector EXCEPT ![e] = NewEjector(e)]
                  ELSE ejector
    /\ Notify(e)
    /\ UNCHANGED <<gameInitialized, nextItem, delivered, dispatch>>

\* the game finishes initializing
GameInitialized ==
    /\ ~gameInitialized
    /\ gameInitialized' = TRUE
    /\ last' = Other
    /\ UNCHANGED <<status, allEntities, ejector, areaToRecompute, nextItem,
                   delivered, unmerged, pending, dispatch>>

\* postLoadHook -> recomputeCache
PostLoad ==
    \E r \in {recomputeCache(status, allEntities, ejector, areaToRecompute)} :
        /\ ejector' = r.ej
        /\ areaToRecompute' = NoRect
        /\ pending' = {}
        /\ unmerged' = (unmerged /\ r.kind # "full")
        /\ last' = Did("postload", r.kind, r.order, <<>>, FALSE, 0)
        /\ UNCHANGED <<status, allEntities, gameInitialized, nextItem,
                       delivered, dispatch>>

\* ItemEjectorComponent.tryEject: a building puts an item into a free slot
TryEject(e, s) ==
    /\ status[e] = "placed"
    /\ nextItem <= MaxItems
    /\ ejector[e].slots[s].item = NoItem
    /\ ejector' = [ejector EXCEPT ![e].slots[s].item = nextItem,
                                  ![e].slots[s].progress = 0]
    /\ nextItem' = nextItem + 1
    /\ last' = Other
    /\ UNCHANGED <<status, allEntities, areaToRecompute, gameInitialized,
                   delivered, unmerged, pending, dispatch>>

\* what canAcceptItem can be asked this tick: <<target, slot index, item>>
\* for the slots of a work list that reach progress 1 with an item
Ready(work, ej, progressGrowth) ==
    {<<ej[work[k][1]].slots[work[k][2]].cachedTargetEntity,
       ej[work[k][1]].slots[work[k][2]].cachedDestSlot.index,
       ej[work[k][1]].slots[work[k][2]].item>> :
        k \in {n \in 1..Len(work) :
                 LET sl == ej[work[n][1]].slots[work[n][2]]
                 IN  sl.item # NoItem /\ Advance(sl.progress, progressGrowth) = One}}

\* the progress growth of a tick: any positive amount up to a whole transfer;
\* when no connected slot holds an item the amount changes nothing
Growths(work, ej) ==
    IF \E k \in 1..Len(work) : ej[work[k][1]].slots[work[k][2]].item # NoItem
    THEN 1..One ELSE {1}

\* a receiver nobody asks this tick
Quiet(e) ==
    [caps |-> Pool[e].caps, path |-> TRUE,
     room |-> [k \in RoomKeys(Pool[e].caps, Len(Pool[e].acceptorSlots)) |-> 0]]

\* every state the receiver e can be in
ReceiversOf ==
    [e \in AcceptorUids |-> Receivers(Pool[e].caps, Len(Pool[e].acceptorSlots))]

QuietOf == [e \in AcceptorUids |-> Quiet(e)]

AllReceivers == UNION {ReceiversOf[e] : e \in AcceptorUids}

\* the receivers a tick can meet: any state for those asked to accept
ReceiverChoices(accepting) ==
    {[e \in AcceptorUids |->
         IF e \in {p[1] : p \in accepting} THEN f[e] ELSE QuietOf[e]] :
        f \in {g \in [{p[1] : p \in accepting} -> AllReceivers] :
                  \A e \in {p[1] : p \in accepting} : g[e] \in ReceiversOf[e]}}

\* the recompute of a pending area put off until the loops of update() have
\* run: they work on the cache as it was
TickRecomputeDeferred(st, all, ej, area) ==
    IF ~area.null
    THEN [ej |-> ej, order |-> recomputeCache(st, all, ej, area).order,
          kind |-> "area"]
    ELSE [ej |-> ej, order |-> <<>>, kind |-> "none"]

\* the recompute at the start of update(), if an area is pending
TickRecompute(st, all, ej, area) ==
    IF ~area.null THEN recomputeCache(st, all, ej, area)
    ELSE [ej |-> ej, order |-> <<>>, kind |-> "none"]

\* update(): recompute if an area is pending, then advance and hand over
Tick ==
    \E rc \in {TickRecompute(status, allEntities, ejector, areaToRecompute)} :
    \E work \in {WorkList(allEntities, rc.ej, 1)} :
        \E progressGrowth \in Growths(work, rc.ej) :
        LET ready == Ready(work, rc.ej, progressGrowth)
        IN  \E accepting \in SUBSET ready :
            \E rcvs \in ReceiverChoices(accepting) :
                \E t \in {UpdateFrom([ej |-> rc.ej, rcvs |-> rcvs, calls |-> <<>>,
                                     aborted |-> FALSE, delivered |-> delivered],
                                    work, 1, progressGrowth, accepting)} :
                    /\ ejector' = t.ej
                    /\ delivered' = t.delivered
                    /\ areaToRecompute' = NoRect
                    /\ pending' = {}
                    /\ last' = Did("tick", rc.kind, rc.order, t.calls,
                                   t.aborted, progressGrowth)
                    /\ UNCHANGED <<status, allEntities, gameInitialized,
                                   nextItem, unmerged, dispatch>>

Next ==
    \/ \E e \in WorldUids : AddEntity(e)
    \/ \E e \in WorldUids : RemoveEntity(e)
    \/ GameInitialized
    \/ PostLoad
    \/ \E e \in EjectorUids : \E s \in 1..Len(Pool[e].ejectorSlots) : TryEject(e, s)
    \/ Tick

Spec == Init /\ [][Next]_vars

TypeOK ==
    /\ status \in [Uids -> {"new", "placed", "destroyed"}]
    /\ gameInitialized \in BOOLEAN
    /\ nextItem \in 1..(MaxItems + 1)
    /\ \A e \in EjectorUids : \A s \in 1..Len(ejector[e].slots) :
           ejector[e].slots[s].progress \in 0..One

\* ------------------------------------------- the dispatcher on any receiver
\* tryPassOverItem is called once on a receiver with any set of capabilities,
\* in any state, for any slot index.
DispatchReceivers(caps, nSlots) ==
    {[caps |-> caps, path |-> p, room |-> r] :
        p \in {TRUE} \cup {b \in {FALSE} : "Belt" \in caps},
        r \in [RoomKeys(caps, nSlots) -> 0..MaxRoom]}

InitDispatch ==
    /\ status = [e \in Uids |-> "new"]
    /\ allEntities = <<>>
    /\ ejector = [e \in EjectorUids |-> NewEjector(e)]
    /\ areaToRecompute = NoRect
    /\ gameInitialized = FALSE
    /\ nextItem = 1
    /\ delivered = [i \in Items |-> 0]
    /\ unmerged = FALSE
    /\ pending = {}
    /\ last = Other
    /\ \E caps \in SUBSET Caps :
       \E rcv \in DispatchReceivers(caps, MaxSlotIndex) :
       \E slotIndex \in 1..MaxSlotIndex :
           dispatch = [phase |-> "call", rcv |-> rcv, slotIndex |-> slotIndex]

Dispatch ==
    /\ dispatch.phase = "call"
    /\ dispatch' = [phase |-> "done", rcv |-> dispatch.rcv,
                    slotIndex |-> dispatch.slotIndex,
                    out |-> tryPassOverItem(dispatch.rcv, dispatch.slotIndex)]
    /\ UNCHANGED <<status, allEntities, ejector, areaToRecompute,
                   gameInitialized, nextItem, delivered, unmerged, pending, last>>

NextDispatch == Dispatch

SpecDispatch == InitDispatch /\ [][NextDispatch]_vars

\* ------------------------------------------- a built world that only runs
\* The buildings are placed, the post-load recompute has run and the game is
\* initialized; from then on buildings eject items and update() runs.
\* a world: the entities placed and the order the ejectors were registered in
World(placed, order) == [placed |-> placed, order |-> order]

RunWorlds ==
    {World({1, 2}, <<1>>), World({1, 2, 3}, <<1, 3>>),
     World({1, 2, 3}, <<3, 1>>), World({8, 9}, <<8>>),
     World({1, 2, 8, 9}, <<8, 1>>)}

StatusOf(placed) == [e \in Uids |-> IF e \in placed THEN "placed" ELSE "new"]

NewEjectors == [e \in EjectorUids |-> NewEjector(e)]

\* the state after postLoadHook on the loaded world w
Loaded(w) ==
    /\ status = StatusOf(w.placed)
    /\ allEntities = w.order
    /\ ejector = recomputeCache(StatusOf(w.placed), w.order, NewEjectors,
                                NoRect).ej
    /\ areaToRecompute = NoRect
    /\ gameInitialized = TRUE
    /\ nextItem = 1
    /\ delivered = [i \in Items |-> 0]
    /\ unmerged = FALSE
    /\ pending = {}
    /\ last = Did("postload", "full", w.order, <<>>, FALSE, 0)
    /\ dispatch = Idle

InitRun == \E w \in RunWorlds : Loaded(w)

\* the worlds whose deliveries are followed to their end
DeliveryWorlds == {World({1, 2, 3}, <<1, 3>>), World({8, 9}, <<8>>)}

InitDelivery == \E w \in DeliveryWorlds : Loaded(w)

NextRun ==
    \/ \E e \in EjectorUids : \E s \in 1..Len(Pool[e].ejectorSlots) : TryEject(e, s)
    \/ Tick

SpecRun == InitRun /\ [][NextRun]_vars

\* the game loop calls update() again and again
SpecDelivery == InitDelivery /\ [][NextRun]_vars /\ WF_vars(Tick)

\* ------------------------------------------- the cache builder on any grid
\* recomputeSingleEntityCache and recomputeAreaCache are called on any grid
\* of the pool's buildings, with the cache that the full recompute left on a
\* grid differing in at most one building, or with no cache computed yet.
StaticUids == {e \in Uids : Pool[e].static}

Grids == SUBSET StaticUids

\* the ejectors of a grid in the order of their uids
OrderOf(placed) ==
    SelectSeq([i \in 1..Len(Pool) |-> i], LAMBDA e : e \in placed /\ HasEjector(e))

\* the grids one add or remove away from placed, and placed itself
GridsNear(placed) ==
    {placed} \cup {placed \cup {e} : e \in StaticUids}
             \cup {placed \ {e} : e \in StaticUids}

\* the rectangles recomputeAreaCache is called with
Areas ==
    {ExpandedBounds(e) : e \in StaticUids}
        \cup {getUnion(ExpandedBounds(1), ExpandedBounds(9))}

\* the components of the ejectors of placed, as computed on the grid before
CacheFrom(before, placed) ==
    [e \in EjectorUids |->
        IF e \in placed /\ e \in before
        THEN recomputeCache(StatusOf(before), OrderOf(before), NewEjectors,
                            NoRect).ej[e]
        ELSE NewEjector(e)]

InitResolve ==
    \E placed \in Grids :
        /\ status = StatusOf(placed)
        /\ allEntities = OrderOf(placed)
        /\ \/ ejector = NewEjectors
           \/ \E before \in GridsNear(placed) : ejector = CacheFrom(before, placed)
        /\ areaToRecompute = NoRect
        /\ gameInitialized = TRUE
        /\ nextItem = 1
        /\ delivered = [i \in Items |-> 0]
        /\ unmerged = FALSE
        /\ pending = {}
        /\ last = Other
        /\ dispatch = Idle

\* recomputeSingleEntityCache(entity)
RecomputeSingle(e) ==
    /\ status[e] = "placed"
    /\ ejector' = Recomputed(status, ejector, e)
    /\ last' = Did("single", "none", <<e>>, <<>>, FALSE, 0)
    /\ UNCHANGED <<status, allEntities, areaToRecompute, gameInitialized,
                   nextItem, delivered, unmerged, pending, dispatch>>

\* recomputeAreaCache(area)
RecomputeArea(area) ==
    \E r \in {recomputeAreaCache(status, ejector, area)} :
        /\ ejector' = r.ej
        /\ last' = Did("area", "area", r.order, <<>>, FALSE, 0)
        /\ UNCHANGED <<status, allEntities, areaToRecompute, gameInitialized,
                       nextItem, delivered, unmerged, pending, dispatch>>

NextResolve ==
    \/ \E e \in EjectorUids : RecomputeSingle(e)
    \/ \E area \in Areas : RecomputeArea(area)

SpecResolve == InitResolve /\ [][NextResolve]_vars

\* ==================================================================== claims
\* what the properties below read from the record of the last operation
Calls(l) == {l.calls[k] : k \in 1..Len(l.calls)}

\* the calls of fn that a tick made for the slot s of e
CallsFor(l, fn, e, s) ==
    {c \in Calls(l) : c.fn = fn /\ c.src = e /\ c.slot = s}

SlotsOf(e) == 1..Len(Pool[e].ejectorSlots)

\* the position of e in a list of entities (0: not in it)
PosIn(all, e) ==
    IF \E k \in 1..Len(all) : all[k] = e
    THEN CHOOSE k \in 1..Len(all) : all[k] = e ELSE 0

\* the connectivity cache of one entity: the part of the component that
\* recomputeSingleEntityCache writes
CacheOf(comp) ==
    [cachedConnectedSlots |-> comp.cachedConnectedSlots,
     slots |-> [i \in 1..Len(comp.slots) |->
                   <<comp.slots[i].cachedTargetEntity, comp.slots[i].cachedDestSlot>>]]

\* ------------------------------------------------------------------------ C1
\* C1: once every add/remove since the last consistent cache was merged into
\* the pending region and recomputeCache has run (no region is pending), the
\* cached target entity, cached destination slot and cachedConnectedSlots of
\* every registered ejector entity are what recomputeSingleEntityCache on every
\* ejector entity over the current grid produces.
C1_IncrementalCorrectness ==
    (~unmerged /\ areaToRecompute.null) =>
        \A k \in 1..Len(allEntities) :
            CacheOf(ejector[allEntities[k]]) =
                CacheOf(recomputeAllFrom(status, allEntities, 1,
                                         ejector).ej[allEntities[k]])

\* an area recompute after merged events has just connected an ejector while
\* another ejector is registered
C1_Witness ==
    /\ ~unmerged
    /\ last.recompute = "area"
    /\ Len(allEntities) >= 2
    /\ \E k \in 1..Len(last.recomputed) :
           ~ejector[last.recomputed[k]].cachedConnectedSlots.null

\* ------------------------------------------------------------------------ C2
\* C2: a tick in which canAcceptItem declines for a connected slot holding an
\* item at progress 1 leaves the item and the progress 1 as they are and calls
\* neither tryPassOverItem nor onItemAccepted for the slot; and the item of a
\* slot (of an entity that is not destroyed in the step) leaves it only in a
\* tick in which canAcceptItem accepted.
C2_Backpressure ==
    [][\A e \in EjectorUids : \A s \in SlotsOf(e) :
          /\ (/\ last'.op = "tick"
              /\ ejector[e].slots[s].item # NoItem
              /\ ejector[e].slots[s].progress = One
              /\ \E c \in CallsFor(last', "canAcceptItem", e, s) : c.ret = "false")
             => /\ ejector'[e].slots[s].item = ejector[e].slots[s].item
                /\ ejector'[e].slots[s].progress = One
                /\ CallsFor(last', "tryPassOverItem", e, s) = {}
                /\ CallsFor(last', "onItemAccepted", e, s) = {}
          /\ (/\ ejector[e].slots[s].item # NoItem
              /\ ejector'[e].slots[s].item # ejector[e].slots[s].item
              /\ PosIn(allEntities', e) > 0)
             => /\ last'.op = "tick"
                /\ ejector'[e].slots[s].item = NoItem
                /\ \E c \in CallsFor(last', "canAcceptItem", e, s) : c.ret = "true"
      ]_vars

\* a second declining tick in a row: the slot was at progress 1 before the
\* tick, was declined again and still holds its item
C2_Witness ==
    /\ last.op = "tick"
    /\ \E c \in Calls(last) :
          /\ c.fn = "canAcceptItem"
          /\ c.ret = "false"
          /\ c.was = One
          /\ ejector[c.src].slots[c.slot].item = c.item
          /\ ejector[c.src].slots[c.slot].progress = One

\* ------------------------------------------------------------------------ C3
\* C3: when tryPassOverItem returns true in a tick (after canAcceptItem
\* returned true for the slot at progress 1), onItemAccepted is called right
\* after it, exactly once in the tick for that item, with the index and the
\* accepted direction of the cached destination slot; after the tick the slot
\* is empty with progress 1; and no item is ever accepted twice.
C3_HandoverCommitsOnce ==
    /\ \A i \in Items : delivered[i] <= 1
    /\ last.op = "tick" =>
          \A k \in 1..Len(last.calls) :
              LET c == last.calls[k]
              IN  /\ (c.fn = "tryPassOverItem" /\ c.ret = "true") =>
                        /\ k > 1
                        /\ last.calls[k - 1].fn = "canAcceptItem"
                        /\ last.calls[k - 1].ret = "true"
                        /\ last.calls[k - 1].src = c.src
                        /\ last.calls[k - 1].slot = c.slot
                        /\ k < Len(last.calls)
                        /\ last.calls[k + 1].fn = "onItemAccepted"
                        /\ last.calls[k + 1].src = c.src
                        /\ last.calls[k + 1].slot = c.slot
                        /\ last.calls[k + 1].target = c.target
                        /\ last.calls[k + 1].item = c.item
                        /\ last.calls[k + 1].index =
                               ejector[c.src].slots[c.slot].cachedDestSlot.index
                        /\ last.calls[k + 1].dir =
                               ejector[c.src].slots[c.slot].cachedDestSlot.acceptedDirection
                        /\ Cardinality({j \in 1..Len(last.calls) :
                               /\ last.calls[j].fn = "onItemAccepted"
                               /\ last.calls[j].item = c.item}) = 1
                        /\ delivered[c.item] = 1
                        /\ ejector[c.src].slots[c.slot].item = NoItem
                        /\ ejector[c.src].slots[c.slot].progress = One
                  /\ c.fn = "onItemAccepted" =>
                        /\ k > 1
                        /\ last.calls[k - 1].fn = "tryPassOverItem"
                        /\ last.calls[k - 1].ret = "true"

\* a tick handed an item over
C3_Witness ==
    /\ last.op = "tick"
    /\ \E c \in Calls(last) :
          /\ c.fn = "tryPassOverItem"
          /\ c.ret = "true"
          /\ delivered[c.item] = 1
          /\ ejector[c.src].slots[c.slot].item = NoItem

\* ------------------------------------------------------------------------ C4
\* C4: no tick calls canAcceptItem, tryPassOverItem or onItemAccepted on an
\* entity that has been destroyed: every call of a tick goes to an entity that
\* is on the map.
C4_NoStaleDereference ==
    last.op = "tick" => \A c \in Calls(last) : status[c.target] = "placed"

\* ------------------------------------------------------------------------ C5
\* C5: a call of tryPassOverItem that returns asks the receiver's present
\* capabilities in the order belt, storage, processor (by slot index),
\* underground belt, generator; it returns true at the first that accepts,
\* asks none after it and takes room from that one only; it returns false if
\* and only if no present capability accepts.  It fails to return only on a
\* belt without a path.
DispatchOrder ==
    <<"Belt", "Storage", "ItemProcessor", "UndergroundBelt", "EnergyGenerator">>

PresentInOrder(caps) == SelectSeq(DispatchOrder, LAMBDA c : c \in caps)

HasRoom(rcv, cap, slotIndex) == rcv.room[RoomKey(cap, slotIndex)] > 0

C5_DispatchOrder ==
    dispatch.phase = "done" =>
        /\ dispatch.out.ret = "abort" <=>
               ("Belt" \in dispatch.rcv.caps /\ ~dispatch.rcv.path)
        /\ dispatch.out.ret # "abort" =>
              /\ \E n \in 0..Len(PresentInOrder(dispatch.rcv.caps)) :
                     dispatch.out.tried =
                         SubSeq(PresentInOrder(dispatch.rcv.caps), 1, n)
              /\ dispatch.out.ret \in {"true", "false"}
              /\ dispatch.out.ret = "false" <=>
                     \A c \in dispatch.rcv.caps :
                         ~HasRoom(dispatch.rcv, c, dispatch.slotIndex)
              /\ dispatch.out.ret = "false" =>
                     /\ dispatch.out.tried = PresentInOrder(dispatch.rcv.caps)
                     /\ dispatch.out.rcv = dispatch.rcv
              /\ dispatch.out.ret = "true" =>
                     /\ dispatch.out.tried # <<>>
                     /\ \A j \in 1..Len(dispatch.out.tried) :
                            HasRoom(dispatch.rcv, dispatch.out.tried[j],
                                    dispatch.slotIndex)
                                <=> j = Len(dispatch.out.tried)
                     /\ dispatch.out.rcv =
                            [dispatch.rcv EXCEPT
                                !.room[RoomKey(
                                    dispatch.out.tried[Len(dispatch.out.tried)],
                                    dispatch.slotIndex)] = @ - 1]

\* the third capability asked took the item while a later one had room too
C5_Witness ==
    /\ dispatch.phase = "done"
    /\ dispatch.out.ret = "true"
    /\ Len(dispatch.out.tried) = 3
    /\ \E c \in dispatch.rcv.caps :
          /\ c \notin Range(dispatch.out.tried)
          /\ HasRoom(dispatch.rcv, c, dispatch.slotIndex)

\* ------------------------------------------------------------------------ C6
\* C6: a call of tryPassOverItem on a receiver with a belt whose path is
\* absent aborts before any capability is asked: it is the last call of the
\* tick, onItemAccepted is not called, the item is not accepted and stays in
\* the source slot; and a tick aborts on nothing else.
C6_FatalPrecondition ==
    last.op = "tick" =>
        /\ \A k \in 1..Len(last.calls) :
              LET c == last.calls[k]
              IN  (c.fn = "tryPassOverItem" /\ "Belt" \in Pool[c.target].caps
                      /\ ~c.path) =>
                      /\ c.ret = "abort"
                      /\ c.tried = <<>>
                      /\ k = Len(last.calls)
                      /\ last.aborted
                      /\ delivered[c.item] = 0
                      /\ ejector[c.src].slots[c.slot].item = c.item
        /\ last.aborted =>
              /\ last.calls # <<>>
              /\ last.calls[Len(last.calls)].fn = "tryPassOverItem"
              /\ last.calls[Len(last.calls)].ret = "abort"
              /\ ~last.calls[Len(last.calls)].path

\* a tick met a belt without a path while a second connected slot was waiting
C6_Witness ==
    /\ last.op = "tick"
    /\ last.aborted
    /\ \E c \in Calls(last) : c.fn = "tryPassOverItem" /\ ~c.path
    /\ \E e \in EjectorUids : \E s \in SlotsOf(e) :
          /\ ejector[e].slots[s].item # NoItem
          /\ CallsFor(last, "canAcceptItem", e, s) = {}
          /\ ~ejector[e].cachedConnectedSlots.null

\* ------------------------------------------------------------------------ C7
\* C7: while the game is initialized, after any add/remove notifications of
\* entities with StaticMapEntity and before the next recompute, areaToRecompute
\* is a rectangle that contains the tile-space bounds of every notified
\* entity grown by 2 tiles on every side.
C7_RegionCovers ==
    \A e \in pending :
        /\ ~areaToRecompute.null
        /\ areaToRecompute.x <= getTileSpaceBounds(e).x - 2
        /\ areaToRecompute.y <= getTileSpaceBounds(e).y - 2
        /\ areaToRecompute.x + areaToRecompute.w >=
               getTileSpaceBounds(e).x + getTileSpaceBounds(e).w + 2
        /\ areaToRecompute.y + areaToRecompute.h >=
               getTileSpaceBounds(e).y + getTileSpaceBounds(e).h + 2

\* two notifications were merged into a region larger than either's part
C7_Witness ==
    /\ Cardinality(pending) >= 2
    /\ \A e \in pending : areaToRecompute # ExpandedBounds(e)

\* ------------------------------------------------------------------------ C8
\* C8: whenever the post-load hook has fired, recomputeSingleEntityCache has
\* run for every registered ejector entity.
C8_PostLoadRecomputesAll ==
    last.op = "postload" =>
        \A k \in 1..Len(allEntities) : allEntities[k] \in Range(last.recomputed)

\* ------------------------------------------------------------------------ C9
\* C9: after recomputeSingleEntityCache has run on an ejector entity with no
\* matching connection, its cachedConnectedSlots differs from the value of a
\* component whose cache was never computed.
C9_TriState ==
    \A k \in 1..Len(last.recomputed) :
        (\A s \in SlotsOf(last.recomputed[k]) :
             ejector[last.recomputed[k]].slots[s].cachedTargetEntity = NoEntity)
        => ejector[last.recomputed[k]].cachedConnectedSlots #
               NewEjector(last.recomputed[k]).cachedConnectedSlots

\* ----------------------------------------------------------------------- C10
\* C10: when in one tick tryPassOverItem is called for slots of two different
\* entities with the same target entity and acceptor slot index, and the
\* receiver had room for one item at the first call, then the first call is
\* the one of the entity registered earlier and hands over (slot cleared,
\* onItemAccepted once), the later one returns false without a hook call, its
\* slot keeps the item at progress 1 and stays connected; and a connected slot
\* holding an item at progress 1 is asked again in the next tick (unless the
\* tick recomputes the cache first or aborts).
C10_Contention ==
    [][/\ last'.op = "tick" =>
             \A k1, k2 \in 1..Len(last'.calls) :
                 LET c1 == last'.calls[k1]
                     c2 == last'.calls[k2]
                 IN  (/\ k1 < k2
                      /\ c1.fn = "tryPassOverItem"
                      /\ c2.fn = "tryPassOverItem"
                      /\ c1.src # c2.src
                      /\ c1.target = c2.target
                      /\ c1.index = c2.index
                      /\ c1.path
                      /\ c1.free = 1)
                     => /\ PosIn(allEntities', c1.src) < PosIn(allEntities', c2.src)
                        /\ c1.ret = "true"
                        /\ ejector'[c1.src].slots[c1.slot].item = NoItem
                        /\ Cardinality({j \in 1..Len(last'.calls) :
                               /\ last'.calls[j].fn = "onItemAccepted"
                               /\ last'.calls[j].item = c1.item}) = 1
                        /\ c2.ret = "false"
                        /\ c2.free = 0
                        /\ CallsFor(last', "onItemAccepted", c2.src, c2.slot) = {}
                        /\ ejector'[c2.src].slots[c2.slot].item = c2.item
                        /\ ejector'[c2.src].slots[c2.slot].progress = One
                        /\ c2.slot \in Range(ejector'[c2.src].cachedConnectedSlots.list)
       /\ \A e \in EjectorUids : \A s \in SlotsOf(e) :
             (/\ last'.op = "tick"
              /\ last'.recompute = "none"
              /\ ~last'.aborted
              /\ s \in Range(ejector[e].cachedConnectedSlots.list)
              /\ PosIn(allEntities, e) > 0
              /\ ejector[e].slots[s].item # NoItem
              /\ ejector[e].slots[s].progress = One)
             => CallsFor(last', "canAcceptItem", e, s) # {}
      ]_vars

\* two entities contended for the one place the receiver had: the first
\* handed over, the second was declined and keeps its item
C10_Witness ==
    /\ last.op = "tick"
    /\ \E c1, c2 \in Calls(last) :
          /\ c1.fn = "tryPassOverItem"
          /\ c2.fn = "tryPassOverItem"
          /\ c1.src # c2.src
          /\ c1.target = c2.target
          /\ c1.index = c2.index
          /\ c1.free = 1
          /\ c1.ret = "true"
          /\ c2.ret = "false"
          /\ ejector[c2.src].slots[c2.slot].item = c2.item

\* the slot s of e is in the entity's cachedConnectedSlots
Connected(ej, e, s) == s \in Range(ej[e].cachedConnectedSlots.list)

\* ----------------------------------------------------------------------- C11
\* C11: when the cached target of a slot has been destroyed and the removal
\* was merged into the pending region, the next recompute (of a tick or of
\* post-load) leaves the slot without cached target and destination slot and
\* out of cachedConnectedSlots; and a tick leaves the item and the progress of
\* every slot that is not connected after its recompute step as they were.
C11_Disconnection ==
    [][\A e \in EjectorUids : \A s \in SlotsOf(e) :
          /\ (/\ last'.op \in {"tick", "postload"}
              /\ PosIn(allEntities, e) > 0
              /\ ejector[e].slots[s].cachedTargetEntity # NoEntity
              /\ status[ejector[e].slots[s].cachedTargetEntity] = "destroyed"
              /\ ejector[e].slots[s].cachedTargetEntity \in pending)
             => /\ last'.recompute = "area"
                /\ ejector'[e].slots[s].cachedTargetEntity = NoEntity
                /\ ejector'[e].slots[s].cachedDestSlot = NoSlot
                /\ ~Connected(ejector', e, s)
          /\ (last'.op = "tick" /\ ~Connected(ejector', e, s))
             => /\ ejector'[e].slots[s].item = ejector[e].slots[s].item
                /\ ejector'[e].slots[s].progress = ejector[e].slots[s].progress
      ]_vars

\* a tick recomputed the region of the destroyed receiver and left an ejector
\* that had been advancing an item towards it without connection
C11_Witness ==
    /\ last.op = "tick"
    /\ last.recompute = "area"
    /\ status[2] = "destroyed"
    /\ \E k \in 1..Len(last.recomputed) :
          /\ ejector[last.recomputed[k]].cachedConnectedSlots.null
          /\ ejector[last.recomputed[k]].slots[1].item # NoItem
          /\ ejector[last.recomputed[k]].slots[1].progress > 0
          /\ ejector[last.recomputed[k]].slots[1].cachedTargetEntity = NoEntity

\* ----------------------------------------------------------------------- C12
\* C12: in every reachable state the progress of every slot lies between 0
\* and 1 (One); no tick lowers the progress of any slot, and a slot whose item
\* a tick hands over keeps progress 1.
C12_ProgressBounds ==
    /\ [](\A e \in EjectorUids : \A s \in SlotsOf(e) :
              ejector[e].slots[s].progress \in 0..One)
    /\ [][last'.op = "tick" =>
             \A e \in EjectorUids : \A s \in SlotsOf(e) :
                 /\ ejector'[e].slots[s].progress >= ejector[e].slots[s].progress
                 /\ CallsFor(last', "onItemAccepted", e, s) # {}
                        => ejector'[e].slots[s].progress = One
         ]_vars

\* a tick advanced a slot from below 1 to 1 and cleared it by a handover
C12_Witness ==
    /\ last.op = "tick"
    /\ \E c \in Calls(last) :
          /\ c.fn = "onItemAccepted"
          /\ c.was < One
          /\ ejector[c.src].slots[c.slot].item = NoItem
          /\ ejector[c.src].slots[c.slot].progress = One

\* ----------------------------------------------------------------------- C13
\* the list of cachedConnectedSlots names no slot twice
NoDuplicates(l) == \A i, j \in 1..Len(l) : l[i] = l[j] => i = j

\* the caches of all entities
Caches(ej) == [e \in EjectorUids |-> CacheOf(ej[e])]

\* the second pass twice changes nothing of what the first pass once left
SamePass(once, twice) ==
    /\ Caches(twice.ej) = Caches(once.ej)
    /\ twice.order = once.order
    /\ \A e \in EjectorUids : NoDuplicates(twice.ej[e].cachedConnectedSlots.list)

\* running recomputeAreaCache(area) after the pass once changes nothing
SecondPassSame(st, once, area) ==
    \A twice \in {recomputeAreaCache(st, once.ej, area)} : SamePass(once, twice)

\* C13: on an unchanged grid, recomputeAreaCache over a rectangle, run again
\* over the same rectangle, gives for every entity the same cached target,
\* cached destination slot and cachedConnectedSlots (same slots, same order,
\* none twice) as the first run gave.
C13_RecomputeIdempotent ==
    \A area \in Areas :
        \A once \in {recomputeAreaCache(status, ejector, area)} :
            SecondPassSame(status, once, area)

\* recomputeAreaCache ran over a rectangle where the two-slot ejector is
\* connected with both slots, and a rectangle is left whose first pass changes
\* the cache of another connected ejector
C13_Witness ==
    /\ last.op = "area"
    /\ 8 \in Range(last.recomputed)
    /\ ejector[8].cachedConnectedSlots = ListOf(<<1, 2>>)
    /\ \E area \in Areas :
          /\ Caches(recomputeAreaCache(status, ejector, area).ej) # Caches(ejector)
          /\ \E e \in Range(recomputeAreaCache(status, ejector, area).order) :
                ~recomputeAreaCache(status, ejector, area).ej[e]
                     .cachedConnectedSlots.null

\* ----------------------------------------------------------------------- C14
\* the slot s of e holds an item
HasItem(e, s) == ejector[e].slots[s].item # NoItem

\* the log l is of a tick in which a target declined or a handover failed
Declining(l) ==
    /\ l.op = "tick"
    /\ l.aborted \/ \E c \in Calls(l) : c.ret = "false"

\* a tick with growth 1 (the N-th part of a transfer, N = One) in which every
\* target accepts: a connected slot with an item is advanced by 1, and the
\* item leaves it, handed over once, exactly when that makes the progress 1
ExactTick ==
    (last'.op = "tick" /\ last'.growth = 1 /\ ~Declining(last'))
    => \A e \in EjectorUids : \A s \in SlotsOf(e) :
          (Connected(ejector', e, s) /\ HasItem(e, s))
          => IF ejector[e].slots[s].progress + 1 < One
             THEN /\ ejector'[e].slots[s].item = ejector[e].slots[s].item
                  /\ ejector'[e].slots[s].progress = ejector[e].slots[s].progress + 1
                  /\ \A c \in Calls(last') : ~(c.src = e /\ c.slot = s)
             ELSE /\ ejector'[e].slots[s].item = NoItem
                  /\ ejector'[e].slots[s].progress = One
                  /\ Cardinality({k \in 1..Len(last'.calls) :
                                     /\ last'.calls[k].fn = "onItemAccepted"
                                     /\ last'.calls[k].src = e
                                     /\ last'.calls[k].slot = s}) = 1
                  /\ delivered'[ejector[e].slots[s].item]
                         = delivered[ejector[e].slots[s].item] + 1

\* C14: with progressGrowth = 1/N (1 of One steps) in every tick and targets
\* that always accept, an item put into a connected slot at progress 0 is
\* advanced by 1/N in each tick, stays in the slot while its progress is below
\* 1, and is removed, with one onItemAccepted, in the tick that brings the
\* progress to 1, which is the N-th; and under repeated ticks, if from some
\* tick on no target declines and no handover fails, every item in a connected
\* slot is eventually removed from it.
C14_DeliveryLiveness ==
    /\ [][ExactTick]_vars
    /\ (<>[]~Declining(last))
       => \A e \in EjectorUids : \A s \in SlotsOf(e) :
              []((Connected(ejector, e, s) /\ HasItem(e, s)) => <>~HasItem(e, s))

\* the N-th tick with growth 1 brought an item from progress (N-1)/N to 1 and
\* handed it over
C14_Witness ==
    /\ last.op = "tick"
    /\ last.growth = 1
    /\ ~Declining(last)
    /\ \E c \in Calls(last) :
          /\ c.fn = "onItemAccepted"
          /\ c.was = One - 1
          /\ ejector[c.src].slots[c.slot].item = NoItem
          /\ delivered[c.item] = 1

\* ----------------------------------------------------------------------- C15
\* the tile at slot world position + unit vector of the slot's world direction
TargetTile(e, s) ==
    VecAdd(localTileToWorld(e, Pool[e].ejectorSlots[s].pos),
           enumDirectionToVector(
               localDirectionToWorld(e, Pool[e].ejectorSlots[s].direction)))

\* what the acceptor of the occupant occ of tile answers when asked for the
\* slot matching tile and the ejection direction of (e, s), both in its local
\* space; NoSlot when there is no occupant or it has no acceptor
MatchOf(occ, e, s, tile) ==
    IF occ = NoEntity THEN NoSlot
    ELSE IF ~Pool[occ].acceptor THEN NoSlot
    ELSE findMatchingSlot(occ, worldToLocalTile(occ, tile),
             worldDirectionToLocal(occ,
                 localDirectionToWorld(e, Pool[e].ejectorSlots[s].direction)))

\* the cache fields of slot are those of the connection (occ, match), or
\* empty when there is no match
CachedAs(slot, occ, match) ==
    /\ (slot.cachedTargetEntity # NoEntity) <=> (match # NoSlot)
    /\ match # NoSlot => slot.cachedTargetEntity = occ /\ slot.cachedDestSlot = match
    /\ match = NoSlot => slot.cachedTargetEntity = NoEntity /\ slot.cachedDestSlot = NoSlot

\* C15: after recomputeSingleEntityCache(entity), alone or within
\* recomputeAreaCache, a slot of the entity has a cached target if and only if
\* the tile at slot world position + unit vector of the slot's world direction
\* is occupied by an entity with an acceptor whose findMatchingSlot, asked with
\* that tile and the ejection direction in the target's local space, returns a
\* match; then the cached target is the occupant and the cached destination
\* slot the match, and otherwise both fields are empty.
C15_ConnectionResolution ==
    last.op \in {"single", "area"}
    => \A e \in Range(last.recomputed) : \A s \in SlotsOf(e) :
          \A occ \in {getTileContent(status, TargetTile(e, s))} :
              CachedAs(ejector[e].slots[s], occ,
                       MatchOf(occ, e, s, TargetTile(e, s)))

\* one recompute resolved a connection, and the ejectors facing a receiver
\* without matching slot and a building without acceptor were recomputed
\* and stay unconnected
C15_Witness ==
    /\ last.op = "area"
    /\ {1, 6, 7} \subseteq Range(last.recomputed)
    /\ status[2] = "placed"
    /\ ejector[1].slots[1].cachedTargetEntity = 2
    /\ ejector[1].slots[1].cachedDestSlot.index = 1
    /\ ejector[6].slots[1].cachedTargetEntity = NoEntity
    /\ ejector[7].slots[1].cachedTargetEntity = NoEntity

\* ----------------------------------------------------------------------- C16
\* the call c was made on the connection the cache ej holds for its slot
OnConnection(ej, c) ==
    /\ Connected(ej, c.src, c.slot)
    /\ c.target = ej[c.src].slots[c.slot].cachedTargetEntity
    /\ c.index = ej[c.src].slots[c.slot].cachedDestSlot.index

\* the tick that led from the unprimed to the primed state worked on the
\* cache once, the result of the recompute of the pending area
TransferAfter(once) ==
    /\ last'.recompute = "area"
    /\ last'.recomputed = once.order
    /\ Caches(ejector') = Caches(once.ej)
    /\ \A c \in Calls(last') : OnConnection(once.ej, c)
    /\ \A e \in EjectorUids : \A s \in SlotsOf(e) :
          (\/ ejector'[e].slots[s].progress # ejector[e].slots[s].progress
           \/ ejector'[e].slots[s].item # ejector[e].slots[s].item)
          => Connected(once.ej, e, s)

\* C16: a tick that starts with a pending region recomputes the region before
\* it advances any slot or attempts any handover: the slots it advances and
\* the calls it makes are those of the recomputed cache, the cache after the
\* tick is the recomputed one, and the pending region is empty after the
\* tick; so after every tick no region is pending.
C16_RecomputeFirst ==
    [][last'.op = "tick"
          => /\ areaToRecompute'.null
             /\ ~areaToRecompute.null
                => \A once \in {recomputeAreaCache(status, ejector, areaToRecompute)} :
                      TransferAfter(once)
      ]_vars

\* a tick recomputed a pending region, which connected a slot holding an item,
\* and handed the item over in the same tick
C16_Witness ==
    /\ last.op = "tick"
    /\ last.recompute = "area"
    /\ areaToRecompute.null
    /\ \E c \in Calls(last) :
          /\ c.fn = "onItemAccepted"
          /\ c.src \in Range(last.recomputed)
          /\ c.was = 0
          /\ ejector[c.src].slots[c.slot].cachedTargetEntity = c.target

\* ----------------------------------------------------------------------- C17
\* the calls of the log l with function fn and result ret for the slot (e, s)
Answered(l, fn, e, s, ret) == {c \in CallsFor(l, fn, e, s) : c.ret = ret}

\* the tick whose log is last' tried to hand over the item of (e, s) after
\* canAcceptItem accepted, and tryPassOverItem returned false: the slot
\* keeps its item at progress 1 and its cache, nothing is delivered
FailureKeepsSlot(e, s) ==
    Answered(last', "tryPassOverItem", e, s, "false") # {}
    => /\ Answered(last', "canAcceptItem", e, s, "true") # {}
       /\ ejector[e].slots[s].item # NoItem
       /\ ejector'[e].slots[s].item = ejector[e].slots[s].item
       /\ ejector'[e].slots[s].progress = One
       /\ CacheOf(ejector'[e]) = CacheOf(ejector[e])
       /\ CallsFor(last', "onItemAccepted", e, s) = {}
       /\ delivered'[ejector[e].slots[s].item]
              = delivered[ejector[e].slots[s].item]

\* a tick that starts with the slot (e, s) as a failed handover left it
\* (connected, item at progress 1) asks its target again, for the same item
\* and destination slot, and tries the handover again if the target accepts
Retried(e, s) ==
    (/\ Connected(ejector, e, s)
     /\ ejector[e].slots[s].item # NoItem
     /\ ejector[e].slots[s].progress = One
     /\ ~last'.aborted)
    => /\ \E c \in CallsFor(last', "canAcceptItem", e, s) :
             /\ c.item = ejector[e].slots[s].item
             /\ c.target = ejector[e].slots[s].cachedTargetEntity
             /\ c.index = ejector[e].slots[s].cachedDestSlot.index
       /\ Answered(last', "canAcceptItem", e, s, "true") # {}
          => \E c \in CallsFor(last', "tryPassOverItem", e, s) :
                /\ c.item = ejector[e].slots[s].item
                /\ c.target = ejector[e].slots[s].cachedTargetEntity
                /\ c.index = ejector[e].slots[s].cachedDestSlot.index

\* C17: when canAcceptItem returns true but tryPassOverItem returns false, the
\* item stays in the source slot at progress 1, onItemAccepted is not called,
\* and the next tick attempts the same handover again.
C17_FailureRetryable ==
    [][last'.op = "tick"
          => \A e \in EjectorUids : \A s \in SlotsOf(e) :
                FailureKeepsSlot(e, s) /\ Retried(e, s)
      ]_vars

\* a tick found the item of a slot already at progress 1, was accepted by
\* canAcceptItem, and its handover failed again: the item is still there
C17_Witness ==
    /\ last.op = "tick"
    /\ ~last.aborted
    /\ \E c \in Calls(last) :
          /\ c.fn = "tryPassOverItem"
          /\ c.ret = "false"
          /\ c.was = One
          /\ ejector[c.src].slots[c.slot].item = c.item
          /\ ejector[c.src].slots[c.slot].progress = One
          /\ delivered[c.item] = 0

\* ----------------------------------------------------------------------- C18
\* the notification for e is ignored: e has no StaticMapEntity, or the game
\* is not initialized
Ignored(e) == ~Pool[e].static \/ ~gameInitialized

\* the step adds or removes an entity
AddsOrRemoves == status' # status \/ allEntities' # allEntities

\* the step only delivers a notification: nothing is placed, removed,
\* registered, ejected, recomputed or transferred
OnlyNotifies ==
    /\ last' = Other
    /\ UNCHANGED <<status, allEntities, ejector, gameInitialized, nextItem,
                   delivered>>

\* the caches of the entities registered before and after the step are kept
CachesKept ==
    \A e \in EjectorUids :
        (PosIn(allEntities, e) > 0 /\ PosIn(allEntities', e) > 0)
        => CacheOf(ejector'[e]) = CacheOf(ejector[e])

\* C18: an add/remove notification for an entity without StaticMapEntity, and
\* any notification delivered while the game is not initialized, leaves
\* areaToRecompute and the connectivity cache of every entity unchanged.
C18_IgnoredNotifications ==
    /\ [](\A e \in Uids :
             Ignored(e) => checkForCacheInvalidation(gameInitialized,
                               areaToRecompute, e) = areaToRecompute)
    /\ [][/\ (AddsOrRemoves /\ ~gameInitialized)
             => (areaToRecompute' = areaToRecompute /\ CachesKept)
          /\ OnlyNotifies
             => (areaToRecompute' = areaToRecompute /\ pending' = pending)
         ]_vars

\* an ejector and its receiver were placed before the game was initialized and
\* the notifications went unmerged: the ejector is registered, nothing is
\* pending and nothing cached
C18_Witness ==
    /\ ~gameInitialized
    /\ unmerged
    /\ status[1] = "placed"
    /\ status[2] = "placed"
    /\ PosIn(allEntities, 1) > 0
    /\ areaToRecompute.null
    /\ pending = {}
    /\ ejector[1].cachedConnectedSlots.null

\* ----------------------------------------------------------------------- C19
\* the list of the component comp of e holds exactly the slots of e whose
\* target and destination are both cached, each once
ListConsistent(comp, e) ==
    /\ Range(comp.cachedConnectedSlots.list) \subseteq SlotsOf(e)
    /\ NoDuplicates(comp.cachedConnectedSlots.list)
    /\ \A s \in SlotsOf(e) :
          (s \in Range(comp.cachedConnectedSlots.list))
          <=> (/\ comp.slots[s].cachedTargetEntity # NoEntity
               /\ comp.slots[s].cachedDestSlot # NoSlot)

\* the cache a tick works on: recomputed if an area is pending
CacheForTick ==
    IF areaToRecompute.null THEN ejector
    ELSE recomputeAreaCache(status, ejector, areaToRecompute).ej

\* C19: after any sequence of recomputes, notifications and ticks, a slot of
\* an ejector is in the entity's cachedConnectedSlots if and only if its
\* cached target entity and cached destination slot are both set, the list
\* holds no slot twice and only slots of that entity; and a tick changes the
\* list and the cache fields of the slots only in its recompute step.
C19_CacheListConsistent ==
    /\ [](\A e \in EjectorUids : ListConsistent(ejector[e], e))
    /\ [][last'.op = "tick"
             => \A before \in {CacheForTick} : Caches(ejector') = Caches(before)
         ]_vars

\* a tick without recompute handed over the item of a connected slot: the
\* slot is still listed with its target and destination cached
C19_Witness ==
    /\ last.op = "tick"
    /\ last.recompute = "none"
    /\ \E c \in Calls(last) :
          /\ c.fn = "onItemAccepted"
          /\ Connected(ejector, c.src, c.slot)
          /\ ejector[c.src].slots[c.slot].cachedTargetEntity = c.target
          /\ ejector[c.src].slots[c.slot].cachedDestSlot.index = c.index
          /\ ejector[c.src].slots[c.slot].item = NoItem

\* ----------------------------------------------------------------------- C20
\* the tick left the empty connected slot (e, s) alone
EmptyUntouched(e, s) ==
    /\ ejector'[e].slots[s].progress = ejector[e].slots[s].progress
    /\ ejector'[e].slots[s].item = NoItem
    /\ \A c \in Calls(last') : ~(c.src = e /\ c.slot = s)

\* the tick advanced the item of the connected slot (e, s) and took it as far
\* as its own progress, its own target's answer and its own handover allow
ProcessedAlone(e, s) ==
    /\ ejector'[e].slots[s].progress
           = Min(One, ejector[e].slots[s].progress + last'.growth)
    /\ (CallsFor(last', "canAcceptItem", e, s) # {})
          <=> (ejector'[e].slots[s].progress = One)
    /\ (CallsFor(last', "tryPassOverItem", e, s) # {})
          <=> (Answered(last', "canAcceptItem", e, s, "true") # {})
    /\ (CallsFor(last', "onItemAccepted", e, s) # {})
          <=> (Answered(last', "tryPassOverItem", e, s, "true") # {})
    /\ ejector'[e].slots[s].item =
           IF CallsFor(last', "onItemAccepted", e, s) # {} THEN NoItem
           ELSE ejector[e].slots[s].item

\* C20: within a tick every connected slot is processed on its own: whether
\* the slots before it, of the same or of an earlier entity, are empty,
\* mid-transfer, declined by canAcceptItem or failed in the handover, a
\* connected slot with an item is advanced, its target asked when it reaches
\* progress 1, and its item handed over when the target accepts and the
\* handover succeeds; a connected slot without item keeps its progress.
C20_SlotsIndependent ==
    [][(last'.op = "tick" /\ ~last'.aborted)
          => \A e \in EjectorUids : \A s \in SlotsOf(e) :
                Connected(ejector', e, s)
                => IF ejector[e].slots[s].item = NoItem
                   THEN EmptyUntouched(e, s)
                   ELSE ProcessedAlone(e, s)
      ]_vars

\* in one tick the handover of the first slot of the two-slot ejector failed
\* and the item of its second slot was handed over
C20_Witness ==
    /\ last.op = "tick"
    /\ ~last.aborted
    /\ \E c \in Calls(last) :
          /\ c.fn = "tryPassOverItem" /\ c.ret = "false"
          /\ c.src = 8 /\ c.slot = 1
          /\ ejector[8].slots[1].item = c.item
    /\ \E c \in Calls(last) :
          /\ c.fn = "onItemAccepted"
          /\ c.src = 8 /\ c.slot = 2
          /\ ejector[8].slots[2].item = NoItem
          /\ delivered[c.item] = 1

====
